---- MODULE Spec2Model ----
(***************************************************************************)
(* Model of the SHT31 temperature/humidity driver (drivers::sht31).        *)
(*                                                                         *)
(* Bytes are kept as their raw values 0..255.  A double that holds         *)
(* v = n / 65535 is kept as the integer numerator n, so the conversions     *)
(* of read_temperature_humidity are exact rationals over 0xFFFF.           *)
(* Every call the driver makes on a collaborator (bus write, bus read,     *)
(* wait_ms, hard_fault) is appended to the log "bus" of the operation       *)
(* that makes it.                                                          *)
(***************************************************************************)
EXTENDS Integers, Sequences, FiniteSets, TLC

VARIABLES
    pc,            \* "new" before construction, "ready", "halted" after hard_fault,
                   \* "crashed" after a faulting store; "crc8" / "crc8_done" in SpecCrc
    _i2c_address,  \* int _i2c_address
    _temperature,  \* double _temperature, as numerator over 65535
    _humidity,     \* double _humidity, as numerator over 65535
    bus,           \* collaborator calls made by the most recent operation, in order
    op,            \* the most recent public operation
    prev,          \* the public operation before it
    ret,           \* what the most recent operation returned to its caller
    crc_data,      \* argument of the crc8 call of SpecCrc
    crc_ret        \* its result

vars == <<pc, _i2c_address, _temperature, _humidity, bus, op, prev, ret, crc_data, crc_ret>>

----------------------------------------------------------------------------
(* Program constants *)

SHT31_DEFAULT_ADDR == 68
SHT31_MEAS_HIGHREP == 9216
SHT31_READSTATUS == 62253
SHT31_CLEARSTATUS == 12353
SHT31_SOFTRESET == 12450
POLYNOMIAL == 49
CRC_INIT == 255
RESET_WAIT_MS == 10
MEAS_WAIT_MS == 50
FRAME_LEN == 6

\* char is an unsigned type in the ARM ABI that <mbed.h> builds for
CHAR_IS_SIGNED == FALSE

----------------------------------------------------------------------------
(* Bounds of the model *)

NumWords == 4
NumStatus == 1

WordSamples == <<0, 65535, 24576, 128, 16384, 32769, 48879>>
StatusSamples == <<128, 16, 136, 0>>

Words == {WordSamples[i] : i \in 1..NumWords}
StatusBytes == {StatusSamples[i] : i \in 1..NumStatus}

\* what an uninitialised double may hold
GarbageDouble == {-9999999, 9999999}
\* what an uninitialised int may hold
GarbageInt == {0}

\* corruption applied to a checksum byte on the wire: none, one flipped bit, all bits
CrcMasks == {0, 1, 2, 4, 8, 16, 32, 64, 128, 255}

\* where a store through the uninitialised pointer of read_status can land
StoreTargets == {"elsewhere", "unmapped", "_i2c_address", "_temperature", "_humidity"}

----------------------------------------------------------------------------
(* Integer arithmetic of the build *)

RECURSIVE Xor(_, _)
Xor(a, b) ==
    IF a = 0 /\ b = 0 THEN 0
    ELSE (((a % 2) + (b % 2)) % 2) + 2 * Xor(a \div 2, b \div 2)

RECURSIVE BitOr(_, _)
BitOr(a, b) ==
    IF a = 0 /\ b = 0 THEN 0
    ELSE (IF a % 2 = 1 \/ b % 2 = 1 THEN 1 ELSE 0) + 2 * BitOr(a \div 2, b \div 2)

RECURSIVE BitAnd(_, _)
BitAnd(a, b) ==
    IF a = 0 \/ b = 0 THEN 0
    ELSE (IF a % 2 = 1 /\ b % 2 = 1 THEN 1 ELSE 0) + 2 * BitAnd(a \div 2, b \div 2)

\* conversion to uint8_t / uint16_t
U8(x) == x % 256
U16(x) == x % 65536

\* integral promotion of a char whose raw byte is b
CharValueSigned(b) == IF b >= 128 THEN b - 256 ELSE b
CharValue(b) == IF CHAR_IS_SIGNED THEN CharValueSigned(b) ELSE b

\* (hi << 8) | lo on promoted chars, assigned to a uint16_t: the low 16 bits
\* of the two's complement images of the two operands, or-ed
WordOf(hi, lo) == BitOr(U16(CharValue(hi) * 256), U16(CharValue(lo)))

----------------------------------------------------------------------------
(* Collaborator calls, as log entries *)

Event(o, a, d, n, m) == [op |-> o, addr |-> a, data |-> d, n |-> n, msg |-> m]

i2c_write(address, bytes) == Event("write", address, bytes, Len(bytes), "")
i2c_read(address, bytes) == Event("read", address, bytes, Len(bytes), "")
wait_ms(ms) == Event("wait", 0, <<>>, ms, "")
hard_fault(message) == Event("hard_fault", 0, <<>>, 0, message)

----------------------------------------------------------------------------
(* Private members *)

write_command_lsb_first(address, cmd) ==
    <<i2c_write(address, <<BitAnd(cmd, 255), U8(cmd \div 256)>>)>>
write_command(address, cmd) ==
    <<i2c_write(address, <<U8(cmd \div 256), BitAnd(cmd, 255)>>)>>

reset(address) == write_command(address, SHT31_SOFTRESET) \o <<wait_ms(RESET_WAIT_MS)>>

crc8_step(crc) ==
    IF BitAnd(crc, 128) # 0 THEN U8(Xor(crc * 2, POLYNOMIAL)) ELSE U8(crc * 2)

RECURSIVE crc8_bits(_, _)
crc8_bits(crc, i) == IF i = 0 THEN crc ELSE crc8_bits(crc8_step(crc), i - 1)

\* "crc ^= *data++" followed by the 8 steps of the inner loop, tabulated once
\* over the values of the register and of the data byte
crc8_byte_table == [crc \in 0..255 |-> [byte \in 0..255 |-> crc8_bits(Xor(crc, byte), 8)]]

RECURSIVE crc8_from(_, _)
crc8_from(crc, data) ==
    IF data = <<>> THEN crc
    ELSE crc8_from(crc8_byte_table[crc][Head(data)], Tail(data))

crc8_init_zero(data) == crc8_from(0, data)
crc8(data) == crc8_from(CRC_INIT, data)

temperature_of(temperature_word) == -45 * 65535 + temperature_word * 175
humidity_of(humidity_word) == humidity_word * 100

\* what read_temperature_humidity leaves behind: its result, the two cached
\* fields after the call, and the collaborator calls it made
Acquired(ok, temperature, humidity, log) ==
    [ok |-> ok, temperature |-> temperature, humidity |-> humidity, log |-> log]

acquire_log(address, readbuffer) ==
    write_command(address, SHT31_MEAS_HIGHREP)
        \o <<wait_ms(MEAS_WAIT_MS), i2c_read(address, readbuffer)>>

\* variant that skips the humidity checksum
rth_no_humidity_check(address, temperature, humidity, readbuffer) ==
    LET temperature_word == WordOf(readbuffer[1], readbuffer[2])
        humidity_word == WordOf(readbuffer[4], readbuffer[5])
        log == acquire_log(address, readbuffer)
    IN  IF CharValue(readbuffer[3]) # crc8(SubSeq(readbuffer, 1, 2))
        THEN Acquired(FALSE, temperature, humidity, log)
        ELSE Acquired(TRUE, temperature_of(temperature_word), humidity_of(humidity_word), log)

\* variant that saves the temperature before the humidity checksum is checked
rth_early_store(address, temperature, humidity, readbuffer) ==
    LET temperature_word == WordOf(readbuffer[1], readbuffer[2])
        humidity_word == WordOf(readbuffer[4], readbuffer[5])
        log == acquire_log(address, readbuffer)
    IN  IF CharValue(readbuffer[3]) # crc8(SubSeq(readbuffer, 1, 2))
        THEN Acquired(FALSE, temperature, humidity, log)
        ELSE IF CharValue(readbuffer[6]) # crc8(SubSeq(readbuffer, 4, 5))
        THEN Acquired(FALSE, temperature_of(temperature_word), humidity, log)
        ELSE Acquired(TRUE, temperature_of(temperature_word), humidity_of(humidity_word), log)

read_temperature_humidity(address, temperature, humidity, readbuffer) ==
    LET temperature_word == WordOf(readbuffer[1], readbuffer[2])
        humidity_word == WordOf(readbuffer[4], readbuffer[5])
        log == acquire_log(address, readbuffer)
    IN  IF CharValue(readbuffer[3]) # crc8(SubSeq(readbuffer, 1, 2))
        THEN Acquired(FALSE, temperature, humidity, log)
        ELSE IF CharValue(readbuffer[6]) # crc8(SubSeq(readbuffer, 4, 5))
        THEN Acquired(FALSE, temperature, humidity, log)
        ELSE Acquired(TRUE, temperature_of(temperature_word), humidity_of(humidity_word), log)

\* The store that _i2c.read makes through the uninitialised "char *val" of
\* read_status: it lands on a byte of the driver, elsewhere, or nowhere.
WildStore(s, target, byte, garbage) ==
    CASE target = "_i2c_address" -> [s EXCEPT !.addr = (s.addr - (s.addr % 256)) + byte]
      [] target = "_temperature" -> [s EXCEPT !.temp = garbage]
      [] target = "_humidity" -> [s EXCEPT !.hum = garbage]
      [] OTHER -> s

read_status(s, msb, lsb, target, garbage) ==
    LET log1 == write_command(s.addr, SHT31_READSTATUS) \o <<i2c_read(s.addr, <<msb>>)>>
        s1 == WildStore(s, target, msb, garbage)
        log2 == log1 \o <<i2c_read(s1.addr, <<lsb>>)>>
        s2 == WildStore(s1, target, lsb, garbage)
    IN  IF target = "unmapped"
        THEN [s |-> s, log |-> log1, crashed |-> TRUE]
        ELSE [s |-> s2, log |-> log2, crashed |-> FALSE]

----------------------------------------------------------------------------
(* Bus responses *)

Frame(tw, hw, m1, m2) ==
    LET t == <<tw \div 256, tw % 256>>
        h == <<hw \div 256, hw % 256>>
    IN  t \o <<Xor(crc8(t), m1)>> \o h \o <<Xor(crc8(h), m2)>>

\* either checksum corrupted alone, or both inverted
Corruptions == {m \in CrcMasks \X CrcMasks : m[1] = 0 \/ m[2] = 0 \/ (m[1] = 255 /\ m[2] = 255)}

Responses == {Frame(tw, hw, m[1], m[2]) : tw \in Words, hw \in Words, m \in Corruptions}

----------------------------------------------------------------------------
(* Public members *)

NoRet == [returned |-> FALSE, val |-> 0]
Returned(v) == [returned |-> TRUE, val |-> v]

Init ==
    /\ pc = "new"
    /\ _i2c_address \in GarbageInt
    /\ _temperature \in GarbageDouble
    /\ _humidity \in GarbageDouble
    /\ bus = <<>>
    /\ op = "none"
    /\ prev = "none"
    /\ ret = NoRet
    /\ crc_data = <<>>
    /\ crc_ret = 0

sht31_no_status ==
    /\ pc = "new"
    /\ _i2c_address' = SHT31_DEFAULT_ADDR * 2
    /\ bus' = reset(SHT31_DEFAULT_ADDR * 2)
    /\ pc' = "ready"
    /\ op' = "sht31"
    /\ prev' = op
    /\ ret' = NoRet
    /\ UNCHANGED <<_temperature, _humidity, crc_data, crc_ret>>

sht31 ==
    /\ pc = "new"
    /\ \E msb \in StatusBytes, lsb \in StatusBytes, target \in StoreTargets, garbage \in GarbageDouble :
         LET address == SHT31_DEFAULT_ADDR * 2
             s0 == [addr |-> address, temp |-> _temperature, hum |-> _humidity]
             r == read_status(s0, msb, lsb, target, garbage)
         IN  /\ _i2c_address' = r.s.addr
             /\ _temperature' = r.s.temp
             /\ _humidity' = r.s.hum
             /\ bus' = reset(address) \o r.log
             /\ pc' = IF r.crashed THEN "crashed" ELSE "ready"
    /\ op' = "sht31"
    /\ prev' = op
    /\ ret' = NoRet
    /\ UNCHANGED <<crc_data, crc_ret>>

\* variant in which hard_fault comes back to the accessor
read_temperature_resumes ==
    /\ pc = "ready"
    /\ \E readbuffer \in Responses :
         LET r == read_temperature_humidity(_i2c_address, _temperature, _humidity, readbuffer)
         IN  /\ _temperature' = r.temperature
             /\ _humidity' = r.humidity
             /\ pc' = "ready"
             /\ bus' = IF r.ok THEN r.log
                       ELSE r.log \o <<hard_fault("SHT31 TEMPERATURE CRC FAIL")>>
             /\ ret' = Returned(r.temperature)
    /\ op' = "read_temperature"
    /\ prev' = op
    /\ UNCHANGED <<_i2c_address, crc_data, crc_ret>>

\* variant that returns the cached value without a new acquisition
read_temperature_cached ==
    /\ pc = "ready"
    /\ ret' = Returned(_temperature)
    /\ bus' = <<>>
    /\ op' = "read_temperature"
    /\ prev' = op
    /\ UNCHANGED <<pc, _i2c_address, _temperature, _humidity, crc_data, crc_ret>>

read_temperature ==
    /\ pc = "ready"
    /\ \E readbuffer \in Responses :
         LET r == read_temperature_humidity(_i2c_address, _temperature, _humidity, readbuffer)
         IN  /\ _temperature' = r.temperature
             /\ _humidity' = r.humidity
             /\ IF r.ok
                THEN /\ pc' = "ready"
                     /\ bus' = r.log
                     /\ ret' = Returned(r.temperature)
                ELSE /\ pc' = "halted"
                     /\ bus' = r.log \o <<hard_fault("SHT31 TEMPERATURE CRC FAIL")>>
                     /\ ret' = NoRet
    /\ op' = "read_temperature"
    /\ prev' = op
    /\ UNCHANGED <<_i2c_address, crc_data, crc_ret>>

read_humidity ==
    /\ pc = "ready"
    /\ \E readbuffer \in Responses :
         LET r == read_temperature_humidity(_i2c_address, _temperature, _humidity, readbuffer)
         IN  /\ _temperature' = r.temperature
             /\ _humidity' = r.humidity
             /\ IF r.ok
                THEN /\ pc' = "ready"
                     /\ bus' = r.log
                     /\ ret' = Returned(r.humidity)
                ELSE /\ pc' = "halted"
                     /\ bus' = r.log \o <<hard_fault("SHT31 HUMIDITY CRC FAIL")>>
                     /\ ret' = NoRet
    /\ op' = "read_humidity"
    /\ prev' = op
    /\ UNCHANGED <<_i2c_address, crc_data, crc_ret>>

Next == sht31 \/ read_temperature \/ read_humidity

Spec == Init /\ [][Next]_vars

----------------------------------------------------------------------------
(* crc8 on its own, over every two-byte input *)

InitCrc ==
    /\ pc = "crc8"
    /\ crc_data \in {<<a, b>> : a \in 0..255, b \in 0..255}
    /\ crc_ret = 0
    /\ _i2c_address = 0
    /\ _temperature = 0
    /\ _humidity = 0
    /\ bus = <<>>
    /\ op = "none"
    /\ prev = "none"
    /\ ret = NoRet

crc8_call ==
    /\ pc = "crc8"
    /\ crc_ret' = crc8(crc_data)
    /\ pc' = "crc8_done"
    /\ UNCHANGED <<_i2c_address, _temperature, _humidity, bus, op, prev, ret, crc_data>>

NextCrc == crc8_call

SpecCrc == InitCrc /\ [][NextCrc]_vars

----------------------------------------------------------------------------
(* Vocabulary of the properties *)

Accessors == {"read_temperature", "read_humidity"}
IsAccessorCall == op \in Accessors

EventsOf(kind) == SelectSeq(bus, LAMBDA e : e.op = kind)

\* the 6 bytes that the most recent operation read from the bus
FrameRead == EventsOf("read")[1].data
HasFrame == IsAccessorCall /\ Len(EventsOf("read")) = 1 /\ Len(FrameRead) = FRAME_LEN

\* CRC-8 of the two bytes a, b as the remainder of a polynomial division over
\* GF(2): ((a.b xor FF00) * x^8) mod (x^8 + x^5 + x^4 + 1).  Adding the
\* polynomial at degree k flips the bits k, k-3, k-4 and k-8 of the dividend.
FlipBit(d, j) == IF (d \div (2 ^ j)) % 2 = 1 THEN d - (2 ^ j) ELSE d + (2 ^ j)

RECURSIVE PolyRem(_, _)
PolyRem(d, k) ==
    IF k < 8 THEN d
    ELSE IF (d \div (2 ^ k)) % 2 = 1
         THEN PolyRem(FlipBit(FlipBit(FlipBit(FlipBit(d, k), k - 3), k - 4), k - 8), k - 1)
         ELSE PolyRem(d, k - 1)

RefCrc8(a, b) == PolyRem(((255 - a) * 256 + b) * 256, 23)

TempWord(f) == 256 * f[1] + f[2]
HumWord(f) == 256 * f[4] + f[5]
TempCrcOk(f) == f[3] = RefCrc8(f[1], f[2])
HumCrcOk(f) == f[6] = RefCrc8(f[4], f[5])

HardFaults == EventsOf("hard_fault")
HaltedOnce ==
    /\ pc = "halted"
    /\ ~ret.returned
    /\ Len(HardFaults) = 1
    /\ bus[Len(bus)].op = "hard_fault"

HasWrite(bytes) == \E i \in DOMAIN bus : bus[i].op = "write" /\ bus[i].data = bytes

----------------------------------------------------------------------------
(* Properties *)

\* C1: a response whose two checksums are correct makes the acquisition
\* succeed and store temperature = -45 + 175*tw/65535 and humidity =
\* 100*hw/65535 (as numerators over 65535), tw and hw being the unsigned
\* big-endian words; word 0 gives -45 and 0, word 0xFFFF gives 130 and 100.
C1_ValidFrameConverted ==
    (HasFrame /\ TempCrcOk(FrameRead) /\ HumCrcOk(FrameRead)) =>
        /\ pc = "ready"
        /\ ret.returned
        /\ _temperature = 175 * TempWord(FrameRead) - 45 * 65535
        /\ _humidity = 100 * HumWord(FrameRead)
        /\ (TempWord(FrameRead) = 0 => _temperature = -45 * 65535)
        /\ (TempWord(FrameRead) = 65535 => _temperature = 130 * 65535)
        /\ (HumWord(FrameRead) = 0 => _humidity = 0)
        /\ (HumWord(FrameRead) = 65535 => _humidity = 100 * 65535)

C1_Witness ==
    /\ HasFrame /\ TempCrcOk(FrameRead) /\ HumCrcOk(FrameRead)
    /\ pc = "ready"
    /\ FrameRead[2] >= 128 /\ FrameRead[3] >= 128
    /\ FrameRead[4] >= 128 /\ FrameRead[6] >= 128

\* C2: an acquisition reports failure whenever byte 2 differs from the CRC of
\* bytes 0..1 or byte 5 differs from the CRC of bytes 3..4, in particular
\* when a single bit of either checksum byte is flipped.
C2_ChecksumMismatchFails ==
    (HasFrame /\ (~TempCrcOk(FrameRead) \/ ~HumCrcOk(FrameRead))) =>
        (pc = "halted" /\ ~ret.returned)

C2_Witness ==
    /\ HasFrame
    /\ TempCrcOk(FrameRead)
    /\ FrameRead[6] = Xor(RefCrc8(FrameRead[4], FrameRead[5]), 128)
    /\ pc = "halted"

\* C3: an acquisition that reports failure leaves both cached fields as they
\* were before the call, and one that succeeds sets both from its frame.
C3_BothOrNeither ==
    [][/\ pc' = "halted" => (_temperature' = _temperature /\ _humidity' = _humidity)
       /\ (pc' = "ready" /\ op' \in Accessors) =>
             /\ _temperature' = 175 * TempWord(FrameRead') - 45 * 65535
             /\ _humidity' = 100 * HumWord(FrameRead')]_vars

C3_Witness ==
    /\ HasFrame
    /\ pc = "halted"
    /\ TempCrcOk(FrameRead) /\ ~HumCrcOk(FrameRead)
    /\ prev \in Accessors
    /\ _temperature \notin GarbageDouble
    /\ _temperature # 175 * TempWord(FrameRead) - 45 * 65535

\* C4: when the acquisition of an accessor fails, hard_fault is called exactly
\* once, as the last thing the accessor does, nothing is returned, and no
\* operation (no bus write, bus read or acquisition) follows the halt.
C4_HaltDoesNotResume ==
    [][/\ pc # "halted"
       /\ (HasFrame' /\ (~TempCrcOk(FrameRead') \/ ~HumCrcOk(FrameRead'))) => HaltedOnce']_vars

C4_Witness ==
    /\ HasFrame
    /\ ~TempCrcOk(FrameRead)
    /\ HaltedOnce
    /\ op = "read_humidity"

\* C5: the message given to hard_fault names the quantity whose checksum
\* mismatched: TEMPERATURE only if byte 2 mismatched, HUMIDITY only if byte 5
\* mismatched.
C5_MessageNamesFailedQuantity ==
    \A i \in DOMAIN bus :
        bus[i].op = "hard_fault" =>
            /\ bus[i].msg = "SHT31 TEMPERATURE CRC FAIL" => ~TempCrcOk(FrameRead)
            /\ bus[i].msg = "SHT31 HUMIDITY CRC FAIL" => ~HumCrcOk(FrameRead)

\* C6: every accessor call performs its own acquisition: one write of the
\* bytes 0x24, 0x00 to the driver's device address, then a 50 ms wait, then
\* exactly one read of exactly 6 bytes from that address; nothing is
\* returned otherwise.
C6_FullAcquisitionPerCall ==
    IsAccessorCall =>
        /\ Len(bus) >= 3
        /\ bus[1] = [op |-> "write", addr |-> _i2c_address, data |-> <<36, 0>>, n |-> 2, msg |-> ""]
        /\ bus[2] = [op |-> "wait", addr |-> 0, data |-> <<>>, n |-> 50, msg |-> ""]
        /\ bus[3].op = "read" /\ bus[3].addr = _i2c_address /\ bus[3].n = 6
        /\ Len(EventsOf("write")) = 1
        /\ Len(EventsOf("wait")) = 1
        /\ Len(EventsOf("read")) = 1

C6_Witness ==
    /\ IsAccessorCall
    /\ prev \in Accessors
    /\ ret.returned
    /\ Len(bus) = 3

\* C7: for every two-byte input crc8 is the CRC-8 of polynomial 0x31 with
\* initial value 0xFF, MSB first, unreflected, without final XOR; the result
\* is within 0..255, and 0x00,0x00 gives 0x81, 0xBE,0xEF gives 0x92.
C7_Crc8IsReference ==
    pc = "crc8_done" =>
        /\ crc_ret = RefCrc8(crc_data[1], crc_data[2])
        /\ crc_ret \in 0..255
        /\ (crc_data = <<0, 0>> => crc_ret = 129)
        /\ (crc_data = <<190, 239>> => crc_ret = 146)
        /\ (crc_data = <<255, 255>> => crc_ret = 172)

C7_Witness ==
    /\ pc = "crc8_done"
    /\ crc_data = <<0, 0>>
    /\ crc_ret # 0

\* C8: construction writes 0x30A2, waits at least 10 ms, writes 0xF32D and
\* reads the two status bytes, in this order, every transaction at address
\* 0x44 << 1, and a measurement command is only issued by a constructed driver.
C8_ConstructionSequence ==
    /\ op = "sht31" =>
          /\ Len(bus) >= 4
          /\ bus[1] = [op |-> "write", addr |-> 136, data |-> <<48, 162>>, n |-> 2, msg |-> ""]
          /\ bus[2].op = "wait" /\ bus[2].n >= 10
          /\ bus[3] = [op |-> "write", addr |-> 136, data |-> <<243, 45>>, n |-> 2, msg |-> ""]
          /\ \A i \in 4..Len(bus) : bus[i].op = "read" /\ bus[i].addr = 136
          /\ Len(EventsOf("read")) = 2
    /\ HasWrite(<<36, 0>>) => (op \in Accessors /\ prev # "none")

\* C9 as stated: once the constructor has completed, a soft-reset command and
\* a clear-status command have been written.
C9_ResetAndStatusClear ==
    (op = "sht31" /\ pc = "ready") => (HasWrite(<<48, 162>>) /\ HasWrite(<<48, 65>>))

\* C9 as amended: once the constructor has completed, a soft-reset command
\* and a read-status command have been written, and no clear-status command
\* is ever written.
C9_ResetAndStatusRead ==
    /\ (op = "sht31" /\ pc = "ready") => (HasWrite(<<48, 162>>) /\ HasWrite(<<243, 45>>))
    /\ ~HasWrite(<<48, 65>>)

C9_Witness ==
    /\ op = "sht31"
    /\ pc = "ready"
    /\ Len(bus) = 5

\* C10: a value returned by read_temperature (read_humidity) is the
\* conversion of the temperature (humidity) word of the frame read during
\* that same call, and lies within [-45, 130] ([0, 100]).
C10_ReturnedValueIsFresh ==
    ret.returned =>
        /\ HasFrame
        /\ op = "read_temperature" =>
              /\ ret.val = 175 * TempWord(FrameRead) - 45 * 65535
              /\ ret.val >= -45 * 65535 /\ ret.val <= 130 * 65535
        /\ op = "read_humidity" =>
              /\ ret.val = 100 * HumWord(FrameRead)
              /\ ret.val >= 0 /\ ret.val <= 100 * 65535

C10_Witness ==
    /\ ret.returned
    /\ op = "read_temperature"
    /\ prev = "read_humidity"
    /\ HasFrame

====
